---- MODULE Spec2Model ----
(***************************************************************************)
(* Model of main.py: the TSV loader (load_data), the effect-label parser   *)
(* (parse_effect_strength), the combo search (find_combo_combinations)     *)
(* and the /api/find-combinations and /api/effect-types handlers.          *)
(*                                                                         *)
(* Text cells that the code inspects character by character (effect        *)
(* labels, the effect_type query parameter) are sequences of one-character *)
(* strings.  Unit and combo names, which the code only compares, hashes    *)
(* and sorts, are strings.                                                 *)
(***************************************************************************)
EXTENDS Integers, Sequences, FiniteSets

VARIABLES cats_data, combos_data, cat_hierarchy, request, response

vars == <<cats_data, combos_data, cat_hierarchy, request, response>>

----------------------------------------------------------------------------
(* Values *)

\* a blank TSV cell, as pandas reads it (unit / stage name columns)
NaN == "NaN"

\* a blank Effect cell
NaNLabel == <<"NaN">>

\* Python's None where a character sequence could stand
None == <<"None">>

Range(s) == {s[i] : i \in DOMAIN s}

Min(S) == CHOOSE x \in S : \A y \in S : x <= y

RECURSIVE Sum(_)
Sum(s) == IF s = <<>> THEN 0 ELSE Head(s) + Sum(Tail(s))

----------------------------------------------------------------------------
(* str operations used by parse_effect_strength *)

\* t in s
Contains(s, t) ==
    \E i \in 1..(Len(s) - Len(t) + 1) : SubSeq(s, i, i + Len(t) - 1) = t

\* s.replace(t, r): every non-overlapping occurrence, left to right
RECURSIVE Replace(_, _, _)
Replace(s, t, r) ==
    IF Len(s) < Len(t) THEN s
    ELSE IF SubSeq(s, 1, Len(t)) = t
         THEN r \o Replace(SubSeq(s, Len(t) + 1, Len(s)), t, r)
         ELSE <<Head(s)>> \o Replace(Tail(s), t, r)

\* s.strip()
Strip(s) ==
    LET keep == {i \in DOMAIN s : s[i] # " "}
    IN  IF keep = {} THEN <<>>
        ELSE SubSeq(s, Min(keep), CHOOSE j \in keep : \A k \in keep : k <= j)

\* s.split(t)[0]
SplitFirst(s, t) ==
    LET at == {i \in 1..(Len(s) - Len(t) + 1) : SubSeq(s, i, i + Len(t) - 1) = t}
    IN  IF at = {} THEN s ELSE SubSeq(s, 1, Min(at) - 1)

\* s.replace('"', '')
RemoveQuotes(s) == Replace(s, <<"\"">>, <<>>)

----------------------------------------------------------------------------
(* parse_effect_strength *)

MarkerSm == <<"(", "S", "m", ")">>
MarkerM  == <<"(", "M", ")">>
MarkerL  == <<"(", "L", ")">>
MarkerXL == <<"(", "X", "L", ")">>

EffectUP == <<"E", "f", "f", "e", "c", "t", "U", "P">>

\* the dict literal, in its iteration (insertion) order
strength_map ==
    << [text |-> MarkerSm, value |-> 1],
       [text |-> MarkerM,  value |-> 2],
       [text |-> MarkerL,  value |-> 3],
       [text |-> MarkerXL, value |-> 4] >>

\* index of the first entry of strength_map whose text occurs in effect, 0 if none
FirstMarker(effect) ==
    LET hits == {i \in DOMAIN strength_map : Contains(effect, strength_map[i].text)}
    IN  IF hits = {} THEN 0 ELSE Min(hits)

parse_effect_strength(effect) ==
    IF effect = NaNLabel THEN [effect_type |-> None, strength |-> 0]
    ELSE LET m == FirstMarker(effect)
         IN  IF m # 0
             THEN [effect_type |-> Strip(Replace(effect, strength_map[m].text, <<>>)),
                   strength    |-> strength_map[m].value]
             ELSE IF Contains(effect, EffectUP) /\ FirstMarker(effect) # 0
                  THEN [effect_type |-> RemoveQuotes(Strip(SplitFirst(effect, EffectUP))),
                        strength    |-> strength_map[FirstMarker(effect)].value]
                  ELSE [effect_type |-> effect, strength |-> 1]

----------------------------------------------------------------------------
(* get_combo_units *)

\* range(1, 6): the columns Unit1 .. Unit5
UnitColumns == 1..5

get_combo_units(combo_row) ==
    SelectSeq([i \in UnitColumns |-> combo_row.Units[i]], LAMBDA u : u # NaN)

----------------------------------------------------------------------------
(* find_combo_combinations *)

\* the combos whose parsed effect type is the target, in table order; row is
\* the index of the combo's row in combos_data
RECURSIVE MatchingFrom(_, _, _)
MatchingFrom(rows, i, target_effect_type) ==
    IF i > Len(rows) THEN <<>>
    ELSE LET p == parse_effect_strength(rows[i].Effect)
         IN  (IF p.effect_type = target_effect_type
              THEN << [name        |-> rows[i].Name,
                       effect_type |-> p.effect_type,
                       strength    |-> p.strength,
                       units       |-> get_combo_units(rows[i]),
                       unit_count  |-> Len(get_combo_units(rows[i])),
                       row         |-> i] >>
              ELSE <<>>)
             \o MatchingFrom(rows, i + 1, target_effect_type)

\* list.sort(key=..., reverse=True) keeps the order of equal keys: x is put
\* after every element whose strength is at least its own
RECURSIVE InsertByStrength(_, _)
InsertByStrength(sorted, x) ==
    IF sorted = <<>> THEN <<x>>
    ELSE IF Head(sorted).strength >= x.strength
         THEN <<Head(sorted)>> \o InsertByStrength(Tail(sorted), x)
         ELSE <<x>> \o sorted

\* variant: the list is left in table order (the sort is dropped)
SortByStrengthNone(s) == s

RECURSIVE SortByStrength(_)
SortByStrength(s) ==
    IF s = <<>> THEN <<>>
    ELSE InsertByStrength(SortByStrength(SubSeq(s, 1, Len(s) - 1)), s[Len(s)])

\* itertools.combinations over positions lo..n, k at a time, in its
\* (lexicographic) order
RECURSIVE combinations(_, _, _)
combinations(lo, n, k) ==
    IF k = 0 THEN << <<>> >>
    ELSE IF n - lo + 1 < k THEN <<>>
    ELSE LET with == combinations(lo + 1, n, k - 1)
         IN  [j \in 1..Len(with) |-> <<lo>> \o with[j]]
             \o combinations(lo + 1, n, k)

\* variant: range(1, len(matching_combos)), the largest size is never tried
ComboCountsShort(n) == 1..(n - 1)

\* range(1, len(matching_combos) + 1)
ComboCounts(n) == 1..n

\* every combo_combination the two nested loops visit, in order
RECURSIVE Enumeration(_, _)
Enumeration(n, combo_count) ==
    IF combo_count > n THEN <<>>
    ELSE (IF combo_count \in ComboCounts(n)
          THEN combinations(1, n, combo_count) ELSE <<>>)
         \o Enumeration(n, combo_count + 1)

MeetsStrength(total_strength, target_strength) ==
    total_strength >= target_strength

\* variant: the budget test is off by one
WithinBudgetLoose(all_cats, max_cats) ==
    Cardinality(all_cats) <= max_cats + 1

WithinBudget(all_cats, max_cats) ==
    Cardinality(all_cats) <= max_cats

\* the dict appended to results for one combo_combination (positions idx of
\* the sorted matching_combos mc); members records the combination itself
MakeResult(mc, idx) ==
    LET all_cats == UNION {Range(mc[idx[j]].units) : j \in DOMAIN idx}
    IN  [combos         |-> [j \in DOMAIN idx |-> mc[idx[j]].name],
         total_strength |-> Sum([j \in DOMAIN idx |-> mc[idx[j]].strength]),
         cats           |-> all_cats,
         cat_count      |-> Cardinality(all_cats),
         members        |-> [j \in DOMAIN idx |-> mc[idx[j]].row]]

Results(mc, target_strength, max_cats) ==
    LET enum == Enumeration(Len(mc), 1)
        made == [e \in DOMAIN enum |-> MakeResult(mc, enum[e])]
    IN  SelectSeq(made,
                  LAMBDA r : /\ MeetsStrength(r.total_strength, target_strength)
                             /\ WithinBudget(r.cats, max_cats))

\* sort order of unit names
UnitRank(u) ==
    CASE u = "u1" -> 1 [] u = "u2" -> 2 [] u = "u3" -> 3 [] u = "u4" -> 4

\* tuple(sorted(result['cats']))
RECURSIVE SortedTuple(_)
SortedTuple(cats) ==
    IF cats = {} THEN <<>>
    ELSE LET least == CHOOSE u \in cats : \A v \in cats : UnitRank(u) <= UnitRank(v)
         IN  <<least>> \o SortedTuple(cats \ {least})

\* the dedup loop: results[i..], with the keys seen so far
RECURSIVE UniqueFrom(_, _, _)
UniqueFrom(results, i, seen_cats) ==
    IF i > Len(results) THEN <<>>
    ELSE LET cats_tuple == SortedTuple(results[i].cats)
         IN  IF cats_tuple \notin seen_cats
             THEN <<results[i]>> \o UniqueFrom(results, i + 1, seen_cats \cup {cats_tuple})
             ELSE UniqueFrom(results, i + 1, seen_cats)

\* variant: no candidate is dropped
UniqueNone(results) == results

\* variant: the last candidate of each unit set is kept, not the first
UniqueKeepLast(results) ==
    LET kept == SelectSeq([i \in DOMAIN results |-> i],
                          LAMBDA i : \A j \in DOMAIN results :
                                         j > i => results[j].cats # results[i].cats)
    IN  [k \in DOMAIN kept |-> results[kept[k]]]

Unique(results) == UniqueFrom(results, 1, {})

\* variant: key=lambda x: x['cat_count']
KeyLessCountOnly(a, b) == a.cat_count < b.cat_count

\* key=lambda x: (x['cat_count'], -x['total_strength']), compared as tuples
KeyLess(a, b) ==
    \/ a.cat_count < b.cat_count
    \/ a.cat_count = b.cat_count /\ -a.total_strength < -b.total_strength

\* list.sort(key=...): stable; x goes after every element not greater than it
RECURSIVE InsertByKey(_, _)
InsertByKey(sorted, x) ==
    IF sorted = <<>> THEN <<x>>
    ELSE IF KeyLess(x, Head(sorted))
         THEN <<x>> \o sorted
         ELSE <<Head(sorted)>> \o InsertByKey(Tail(sorted), x)

RECURSIVE SortByKey(_)
SortByKey(s) ==
    IF s = <<>> THEN <<>>
    ELSE InsertByKey(SortByKey(SubSeq(s, 1, Len(s) - 1)), s[Len(s)])

\* the sorted matching_combos of a query
matching_combos(rows, target_effect_type) ==
    SortByStrength(MatchingFrom(rows, 1, target_effect_type))

\* combos_data is None until load_data has run: iterrows() then raises
find_combo_combinations(data, target_effect_type, target_strength, max_cats) ==
    IF ~data.loaded
    THEN [raised |-> TRUE,
          message |-> "'NoneType' object has no attribute 'iterrows'",
          value |-> <<>>]
    ELSE [raised |-> FALSE,
          message |-> "",
          value |-> SortByKey(Unique(Results(matching_combos(data.rows, target_effect_type),
                                             target_strength, max_cats)))]

----------------------------------------------------------------------------
(* load_data *)

\* the present stages of one cats.tsv row, First < Evolved < True < Ultra
Forms(row) ==
    SelectSeq(<<row.First, row.Evolved, row.True, row.Ultra>>, LAMBDA f : f # NaN)

\* the inner loop over enumerate(forms), from position i on
RECURSIVE AddForms(_, _, _)
AddForms(h, forms, i) ==
    IF i > Len(forms) THEN h
    ELSE LET form == forms[i]
             old  == IF form \in DOMAIN h THEN h[form] ELSE {}
             tail == {forms[j] : j \in i..Len(forms)}
         IN  AddForms([k \in DOMAIN h \cup {form} |->
                          IF k = form THEN old \cup tail ELSE h[k]],
                      forms, i + 1)

\* the outer loop over cats_data.iterrows(), from row r on
RECURSIVE BuildHierarchy(_, _, _)
BuildHierarchy(h, rows, r) ==
    IF r > Len(rows) THEN h
    ELSE BuildHierarchy(AddForms(h, Forms(rows[r]), 1), rows, r + 1)

----------------------------------------------------------------------------
(* Input tables and requests *)

MaxCatRows == 2
MaxCombos == 3

SeqsUpTo(S, n) == UNION {[1..k -> S] : k \in 0..n}

CatRow(a, b, c, d) == [First |-> a, Evolved |-> b, True |-> c, Ultra |-> d]

CatRowPool ==
    { CatRow("A", "B", NaN, NaN),
      CatRow("B", NaN, "C", "D"),
      CatRow("E", "F", "G", NaN) }

Attack  == <<"A", "t", "t", "a", "c", "k">>
EvaName == <<"E", "v", "a", " ", "A", "n", "g", "e", "l", " ",
             "K", "i", "l", "l", "e", "r">>

\* "Eva Angel Killer" EffectUP (XL), the label of the comment at line 54
EvaLabel == <<"\"">> \o EvaName \o <<"\"", " ">> \o EffectUP \o <<" ">> \o MarkerXL

ComboRow(name, effect, units) == [Name |-> name, Effect |-> effect, Units |-> units]

ComboA == ComboRow("A", Attack \o <<" ">> \o MarkerM,  <<"u1", "u2", NaN, NaN, NaN>>)
ComboB == ComboRow("B", Attack \o <<" ">> \o MarkerL,  <<"u2", NaN, "u3", NaN, NaN>>)
ComboC == ComboRow("C", Attack \o <<" ">> \o MarkerSm, <<"u4", NaN, NaN, NaN, NaN>>)
ComboD == ComboRow("D", Attack \o <<" ">> \o MarkerL,  <<NaN, NaN, NaN, NaN, NaN>>)
ComboV == ComboRow("V", EvaLabel,                      <<"u1", NaN, NaN, NaN, NaN>>)

ComboRowPool == {ComboA, ComboB, ComboC, ComboD, ComboV}

ExampleCats   == << CatRow("A", "B", NaN, NaN) >>
ExampleCombos == <<ComboA, ComboB, ComboC>>

\* the pairs (cats.tsv, combos.tsv) load_data is run on
Datasets ==
    (SeqsUpTo(CatRowPool, MaxCatRows) \X {ExampleCombos})
    \cup ({ExampleCats} \X SeqsUpTo(ComboRowPool, MaxCombos))

\* a query parameter as request.args holds it
ArgAbsent == [kind |-> "absent", val |-> 0]
ArgNonInt == [kind |-> "nonint", val |-> 0]
ArgInt(n) == [kind |-> "int", val |-> n]

EffectTypeArgs ==
    {None, <<>>, Attack, EvaName, <<"\"">> \o EvaName \o <<"\"", " ">> \o EffectUP}
StrengthArgs == {ArgAbsent, ArgNonInt} \cup {ArgInt(n) : n \in {0, 3, 5}}
MaxCatsArgs  == {ArgAbsent, ArgNonInt} \cup {ArgInt(n) : n \in {0, 2, 3}}

Requests ==
    [effect_type : EffectTypeArgs, strength : StrengthArgs, max_cats : MaxCatsArgs]

NoRequest  == [effect_type |-> None, strength |-> ArgAbsent, max_cats |-> ArgAbsent,
               active |-> FALSE]
NoResponse == [status |-> 0, error |-> "", results |-> <<>>, total_found |-> 0,
               searched |-> FALSE]

----------------------------------------------------------------------------
(* The handlers *)

\* int(request.args.get(name, default))
IntArg(arg, default) == IF arg.kind = "absent" THEN default ELSE arg.val

\* find_combinations: the response to req, with combos_data as data;
\* searched records whether find_combo_combinations was called
find_combinations(data, req) ==
    IF req.strength.kind = "nonint" \/ req.max_cats.kind = "nonint"
    THEN \* int() raises ValueError outside the try: Flask answers 500
         [status |-> 500, error |-> "Internal Server Error (ValueError)",
          results |-> <<>>, total_found |-> 0, searched |-> FALSE]
    ELSE IF req.effect_type = None \/ req.effect_type = <<>>
    THEN [status |-> 400, error |-> "Effect type is required",
          results |-> <<>>, total_found |-> 0, searched |-> FALSE]
    ELSE LET found == find_combo_combinations(data, req.effect_type,
                                              IntArg(req.strength, 1),
                                              IntArg(req.max_cats, 5))
         IN  IF found.raised
             THEN [status |-> 500, error |-> found.message,
                   results |-> <<>>, total_found |-> 0, searched |-> TRUE]
             ELSE [status |-> 200, error |-> "",
                   results |-> found.value, total_found |-> Len(found.value),
                   searched |-> TRUE]

Init ==
    /\ cats_data = <<>>
    /\ combos_data = [loaded |-> FALSE, rows |-> <<>>]
    /\ cat_hierarchy = <<>>
    /\ request = NoRequest
    /\ response = NoResponse

\* load_data(), run once by __main__ before the server starts
LoadData ==
    /\ ~combos_data.loaded
    /\ request = NoRequest
    /\ \E d \in Datasets :
          /\ cats_data' = d[1]
          /\ combos_data' = [loaded |-> TRUE, rows |-> d[2]]
          /\ cat_hierarchy' = BuildHierarchy(cat_hierarchy, d[1], 1)
    /\ UNCHANGED <<request, response>>

\* GET /api/find-combinations
FindCombinations ==
    /\ request = NoRequest
    /\ \E req \in Requests :
          /\ request' = [effect_type |-> req.effect_type, strength |-> req.strength,
                         max_cats |-> req.max_cats, active |-> TRUE]
          /\ response' = find_combinations(combos_data, req)
    /\ UNCHANGED <<cats_data, combos_data, cat_hierarchy>>

\* the response has been sent and the request context is popped
Teardown ==
    /\ request # NoRequest
    /\ request' = NoRequest
    /\ response' = NoResponse
    /\ UNCHANGED <<cats_data, combos_data, cat_hierarchy>>

Next == LoadData \/ FindCombinations \/ Teardown

Spec == Init /\ [][Next]_vars

----------------------------------------------------------------------------
(* The query of the current request, read off the tables directly *)

\* the request was answered with a result list
Answered == request.active /\ response.status = 200

Rows   == combos_data.rows
Target == request.effect_type
TargetStrength == IntArg(request.strength, 1)
MaxUnits == IntArg(request.max_cats, 5)

\* parse_effect_strength tabulated over the labels of the combo tables
ParsedLabels ==
    [label \in {row.Effect : row \in ComboRowPool} |-> parse_effect_strength(label)]

Tier(i)    == ParsedLabels[Rows[i].Effect].strength
UnitsOf(i) == {Rows[i].Units[c] : c \in UnitColumns} \ {NaN}

\* the rows of combos_data whose effect type is the target
MatchRows ==
    {i \in DOMAIN Rows : ParsedLabels[Rows[i].Effect].effect_type = Target}

RECURSIVE TierSum(_)
TierSum(S) ==
    IF S = {} THEN 0
    ELSE LET i == CHOOSE x \in S : TRUE IN Tier(i) + TierSum(S \ {i})

UnionUnits(S) == UNION {UnitsOf(i) : i \in S}

\* a non-empty set of matching rows that meets the target within the budget
Qualifies(S) ==
    /\ S # {}
    /\ S \subseteq MatchRows
    /\ TierSum(S) >= TargetStrength
    /\ Cardinality(UnionUnits(S)) <= MaxUnits

QualifyingSets == {S \in SUBSET MatchRows : Qualifies(S)}

Members(r) == Range(r.members)

\* C1: every returned candidate is a set of combos of the target effect type
\* whose total_strength is the sum of their tiers and at least the target,
\* and whose cat_count is the size of the union of their units and at most
\* maxUnits.
C1_Soundness ==
    Answered =>
        \A k \in DOMAIN response.results :
            LET r == response.results[k]
            IN  /\ Members(r) # {}
                /\ Cardinality(Members(r)) = Len(r.members)
                /\ Members(r) \subseteq MatchRows
                /\ r.total_strength = TierSum(Members(r))
                /\ r.total_strength >= TargetStrength
                /\ r.cats = UnionUnits(Members(r))
                /\ r.cat_count = Cardinality(UnionUnits(Members(r)))
                /\ r.cat_count <= MaxUnits

\* a query that returned a candidate and discarded one subset for its
\* strength and another for its unit count
C1_Witness ==
    /\ Answered
    /\ response.results # <<>>
    /\ \E S \in SUBSET MatchRows : S # {} /\ TierSum(S) < TargetStrength
    /\ \E S \in SUBSET MatchRows :
          TierSum(S) >= TargetStrength /\ Cardinality(UnionUnits(S)) > MaxUnits

\* C2: every qualifying subset of the matching combos is represented by
\* exactly one returned candidate, the one whose unit set is the subset's
\* unit union.
C2_Completeness ==
    Answered =>
        LET unions == {UnionUnits(S) : S \in QualifyingSets}
        IN  \A u \in unions :
                Cardinality({k \in DOMAIN response.results :
                                response.results[k].cats = u}) = 1

\* a query with two qualifying subsets of one unit union and a third of
\* another
C2_Witness ==
    /\ Answered
    /\ \E S1, S2, S3 \in QualifyingSets :
          /\ S1 # S2
          /\ UnionUnits(S1) = UnionUnits(S2)
          /\ UnionUnits(S3) # UnionUnits(S1)
          /\ S3 = MatchRows

\* C3, as claimed: no returned candidate contains a proper non-empty subset
\* of its combos whose tier sum already reaches the target.
C3_Minimal ==
    Answered =>
        \A k \in DOMAIN response.results :
            \A S \in SUBSET Members(response.results[k]) :
                (S # {} /\ S # Members(response.results[k]))
                    => TierSum(S) < TargetStrength

\* C3, amended: no returned candidate contains a proper non-empty subset of
\* its combos that reaches the target with the candidate's own unit set.
C3_MinimalForUnitSet ==
    Answered =>
        \A k \in DOMAIN response.results :
            \A S \in SUBSET Members(response.results[k]) :
                (S # {} /\ S # Members(response.results[k]))
                    => \/ TierSum(S) < TargetStrength
                       \/ UnionUnits(S) # response.results[k].cats

\* a returned candidate of two or more combos, while a qualifying subset
\* with one combo more and the same unit set was dropped
C3_Witness ==
    /\ Answered
    /\ \E k \in DOMAIN response.results :
          /\ Len(response.results[k].members) >= 2
          /\ \E S \in QualifyingSets :
                /\ Members(response.results[k]) \subseteq S
                /\ S # Members(response.results[k])
                /\ UnionUnits(S) = response.results[k].cats

\* C4: no two returned candidates have the same unit set, compared as sorted
\* tuples of unit names.
C4_DedupUnique ==
    Answered =>
        \A k1, k2 \in DOMAIN response.results :
            k1 # k2 => SortedTuple(response.results[k1].cats)
                       # SortedTuple(response.results[k2].cats)

\* two or more candidates returned, after a candidate of another combo
\* membership and strength but the same unit set was dropped
C4_Witness ==
    /\ Answered
    /\ Len(response.results) >= 2
    /\ \E k \in DOMAIN response.results : \E S \in QualifyingSets :
          /\ UnionUnits(S) = response.results[k].cats
          /\ S # Members(response.results[k])
          /\ TierSum(S) # response.results[k].total_strength

\* the query of the end-to-end example: A tier 2 {u1,u2}, B tier 3 {u2,u3},
\* C tier 1 {u4}; target 3, maxUnits 3
ExampleQuery ==
    /\ Answered
    /\ Rows = ExampleCombos
    /\ Target = Attack
    /\ TargetStrength = 3
    /\ MaxUnits = 3

\* C5: the returned list is non-decreasing in cat_count and, among adjacent
\* candidates of equal cat_count, non-increasing in total_strength; in the
\* end-to-end example the candidate {B} comes first.
C5_Ranking ==
    /\ Answered =>
          \A k \in DOMAIN response.results :
              k + 1 \in DOMAIN response.results =>
                  LET a == response.results[k]
                      b == response.results[k + 1]
                  IN  /\ a.cat_count <= b.cat_count
                      /\ a.cat_count = b.cat_count
                            => a.total_strength >= b.total_strength
    /\ ExampleQuery =>
          /\ response.results # <<>>
          /\ response.results[1].combos = <<"B">>
          /\ response.results[1].cat_count = 2

\* the end-to-end example answered, with {A,C} among the candidates
C5_Witness ==
    /\ ExampleQuery
    /\ \E k \in DOMAIN response.results :
          /\ k > 1
          /\ Range(response.results[k].combos) = {"A", "C"}
          /\ response.results[k].cat_count = 3

\* C6, as claimed: on every loaded catalog a search with target strength 0
\* and maxUnits 0 returns the empty list.
C6_MaxUnitsZeroEmpty ==
    ( /\ Answered
      /\ combos_data.loaded
      /\ request.strength = ArgInt(0)
      /\ request.max_cats = ArgInt(0) )
        => response.results = <<>>

\* C7, as claimed: after load_data, along every row's chain of present
\* stages each satisfying set contains the next one, and every key's
\* satisfying set contains the key.
C7_Monotone ==
    combos_data.loaded =>
        /\ \A r \in DOMAIN cats_data :
              LET forms == Forms(cats_data[r])
              IN  \A i \in DOMAIN forms :
                      i + 1 \in DOMAIN forms =>
                          cat_hierarchy[forms[i + 1]] \subseteq cat_hierarchy[forms[i]]
        /\ \A k \in DOMAIN cat_hierarchy : k \in cat_hierarchy[k]

\* the marker that follows the EffectUP keyword in a label, 0 if none
MarkerAfterEffectUP(label) ==
    LET At(t) == {p \in 1..(Len(label) - Len(t) + 1) :
                     SubSeq(label, p, p + Len(t) - 1) = t}
        hits == {i \in DOMAIN strength_map :
                    \E p \in At(EffectUP) : \E q \in At(strength_map[i].text) :
                        q >= p + Len(EffectUP)}
    IN  IF hits = {} THEN 0 ELSE Min(hits)

\* C8, as claimed: a label holding EffectUP followed by a marker parses to
\* the text before EffectUP, trimmed and without double quotes, with the
\* marker's tier; the Eva label parses to (Eva Angel Killer, 4).  Read off
\* the rows a search has just parsed.
C8_EffectUPCase ==
    Answered =>
        \A i \in DOMAIN Rows :
            LET label == Rows[i].Effect
                m == MarkerAfterEffectUP(label)
            IN  /\ (label # NaNLabel /\ m # 0) =>
                      parse_effect_strength(label)
                          = [effect_type |-> RemoveQuotes(Strip(SplitFirst(label, EffectUP))),
                             strength    |-> strength_map[m].value]
                /\ label = EvaLabel =>
                      parse_effect_strength(label)
                          = [effect_type |-> EvaName, strength |-> 4]

\* C9, as claimed: a request without effect_type is answered 400 'Effect
\* type is required' without running the search, whatever strength and
\* max_cats hold; a fault of the search is answered 500 with its message.
C9_InputError ==
    /\ (request.active /\ request.effect_type \in {None, <<>>}) =>
          /\ response.status = 400
          /\ response.error = "Effect type is required"
          /\ ~response.searched
    /\ (request.active /\ response.searched /\ ~combos_data.loaded) =>
          /\ response.status = 500
          /\ response.error = "'NoneType' object has no attribute 'iterrows'"

\* position of row i before row j in the matching combos sorted stably by
\* tier descending
Before(i, j) == Tier(i) > Tier(j) \/ (Tier(i) = Tier(j) /\ i < j)

\* the combination S1 is enumerated before S2: a smaller size first, and
\* within one size the itertools (lexicographic) order
Precedes(S1, S2) ==
    \/ Cardinality(S1) < Cardinality(S2)
    \/ /\ Cardinality(S1) = Cardinality(S2)
       /\ S1 # S2
       /\ LET diff == (S1 \ S2) \cup (S2 \ S1)
              d == CHOOSE x \in diff : \A y \in diff : x = y \/ Before(x, y)
          IN  d \in S1

\* C10: the candidate returned for a unit set is the earliest qualifying
\* combination of that unit set in enumeration order, so no qualifying
\* subset of the same unit set has fewer combos.
C10_FirstKept ==
    Answered =>
        LET qualifying == QualifyingSets
        IN  \A k \in DOMAIN response.results :
                LET r == response.results[k]
                    same == {S \in qualifying : UnionUnits(S) = r.cats} \ {Members(r)}
                IN  /\ \A j \in DOMAIN r.members :
                          j + 1 \in DOMAIN r.members
                              => Before(r.members[j], r.members[j + 1])
                    /\ \A S \in same :
                          /\ Precedes(Members(r), S)
                          /\ Cardinality(S) >= Len(r.members)

\* a returned candidate that beat another qualifying combination of the
\* same size and unit set whose rows come earlier in the table
C10_Witness ==
    /\ Answered
    /\ \E k \in DOMAIN response.results : \E S \in QualifyingSets :
          LET r == response.results[k]
          IN  /\ UnionUnits(S) = r.cats
              /\ S # Members(r)
              /\ Cardinality(S) = Len(r.members)
              /\ \E i \in S \ Members(r) : \A j \in Members(r) \ S : i < j

====
